---- MODULE Spec2Model ----
(***************************************************************************)
(* Model of services/geminiService.ts: the retry wrapper                   *)
(* withExponentialBackoff and the three remote calls built on it           *)
(* (generateImageGemini, editImageGemini, sendChatMessageGemini), and of   *)
(* the handlers of App.tsx that call them.                                 *)
(*                                                                         *)
(* A JavaScript string is a sequence of tokens; a value that may be        *)
(* undefined is the empty sequence (Absent) or a one-element sequence      *)
(* (Some(x)).                                                              *)
(***************************************************************************)
EXTENDS Integers, Sequences, FiniteSets, TLC

VARIABLES call, env, ai, keysUsed, calls, received, sent, chat, ui, overlap

vars == <<call, env, ai, keysUsed, calls, received, sent, chat, ui, overlap>>

\* What the wrapper itself never touches: the environment and the client.
keyVars == <<env, ai, keysUsed>>

\* One call looked at on its own, with its environment.
coreVars == <<call, env, ai, keysUsed>>

\* Several calls in flight together, with what each was answered and the
\* chat contexts that were sent.
concVars == <<calls, received, sent, chat>>

\* The component's state, and for each call made by a handler whether
\* another handler's call was in flight at some moment of its own flight.
uiVars == <<ui, overlap>>

(***************************************************************************)
(* Bounds of the model and constants of the program.                       *)
(***************************************************************************)
MaxAttempts == 4
OtherDelay == 250
MaxParts == 2
MaxExchanges == 2
DefaultAttempts == 3
DefaultDelay == 1000
BackoffMultiplier == 2
TooManyRequests == 429
Forbidden == 403
OtherStatus == 404

(***************************************************************************)
(* Optional values (undefined / a value).                                  *)
(***************************************************************************)
Absent == <<>>
Some(x) == <<x>>
Has(o) == Len(o) > 0
Get(o) == o[1]

(***************************************************************************)
(* Strings.                                                                *)
(***************************************************************************)
EntityNotFound == <<"Requested", "entity", "was", "not", "found.">>
MaxRetryMessage == <<"Maximum", "retry", "attempts", "reached.">>
UndefinedReadMessage == <<"Cannot", "read", "properties", "of", "undefined">>
PngUriPrefix == <<"data:image/png;base64,">>
QualitySuffix == <<",", "high", "quality,", "professional,", "highly", "detailed.">>
EditPrefix == <<"Edit", "this", "image", "based", "on", "the", "following", "instruction:">>
EditSuffix == <<".", "Return", "ONLY", "the", "edited", "image.">>
Persona == <<"You", "are", "'Digi AI Assistant'">>

\* String.prototype.includes: scan the positions of s from k on for needle.
RECURSIVE IncludesFrom(_, _, _)
IncludesFrom(s, needle, k) ==
    IF k + Len(needle) > Len(s) THEN FALSE
    ELSE IF SubSeq(s, k + 1, k + Len(needle)) = needle THEN TRUE
    ELSE IncludesFrom(s, needle, k + 1)

Includes(s, needle) == IncludesFrom(s, needle, 0)

\* `${x}` in a template literal: undefined prints as the text "undefined".
TemplateText(o) == IF Has(o) THEN Get(o) ELSE <<"undefined">>

(***************************************************************************)
(* Errors: objects with an optional status and an optional message.        *)
(***************************************************************************)
ErrorObject(n, s, m) == [name |-> n, status |-> s, message |-> m]

NoError == ErrorObject("", Absent, Absent)
MaxRetryError == ErrorObject("Error", Absent, Some(MaxRetryMessage))
UndefinedReadError == ErrorObject("TypeError", Absent, Some(UndefinedReadMessage))

Statuses == {Absent, Some(TooManyRequests), Some(Forbidden), Some(OtherStatus)}

Messages ==
    { Absent,
      Some(<<"ApiError:">> \o EntityNotFound \o <<"(models/x)">>),
      Some(<<"Requested", "entity", "was", "found.">>),
      Some(<<"Requested", "entity", "was", "not">>) }

RemoteErrors == {ErrorObject("ApiError", s, m) : s \in Statuses, m \in Messages}

(***************************************************************************)
(* What a function call produces: a returned value or a thrown error.      *)
(***************************************************************************)
Return(v) == [tag |-> "return", val |-> v, err |-> NoError]
Throw(e) == [tag |-> "throw", val |-> Absent, err |-> e]
Pending == [tag |-> "none", val |-> Absent, err |-> NoError]

(***************************************************************************)
(* Remote responses.  generateImages: a response has an optional list of   *)
(* generated images; an entry may be missing, may carry no image (a        *)
(* filtered image), or an image with or without bytes.                     *)
(***************************************************************************)
BytesA == <<"iVBORw0KGgo">>
BytesB == <<"R0lGODlhAQAB">>

Image(bytes) == [imageBytes |-> bytes]
GeneratedImage(img) == [image |-> img]

GeneratedEntries ==
    { Absent,
      Some(GeneratedImage(Absent)),
      Some(GeneratedImage(Some(Image(Absent)))),
      Some(GeneratedImage(Some(Image(Some(<<>>))))),
      Some(GeneratedImage(Some(Image(Some(BytesA))))) }

GeneratedLists ==
    {<<>>} \cup {<<e>> : e \in GeneratedEntries}
           \cup {<<e, Some(GeneratedImage(Some(Image(Some(BytesB)))))>> : e \in GeneratedEntries}

GenerateResponses ==
    {[generatedImages |-> Absent]} \cup {[generatedImages |-> Some(l)] : l \in GeneratedLists}

(***************************************************************************)
(* generateContent: optional candidates, each with optional content and    *)
(* optional parts; a part is a text part or an inline-data part.           *)
(***************************************************************************)
Blob(m, d) == [mimeType |-> m, data |-> d]
Part(t, b) == [text |-> t, inlineData |-> b]

TextPart == Part(Some(<<"Here", "is", "your", "image">>), Absent)

PartChoices ==
    { TextPart,
      Part(Absent, Some(Blob("image/png", Some(BytesA)))),
      Part(Absent, Some(Blob("image/jpeg", Some(BytesB)))),
      Part(Absent, Some(Blob("image/png", Absent))) }

PartLists == UNION {[1..n -> PartChoices] : n \in 0..MaxParts}

Content(p) == [parts |-> p]
Candidate(c) == [content |-> c]

CandidateChoices ==
    { Absent, Some(Candidate(Absent)), Some(Candidate(Some(Content(Absent)))) }
    \cup {Some(Candidate(Some(Content(Some(ps))))) : ps \in PartLists}

ImageCandidate ==
    Some(Candidate(Some(Content(Some(<<Part(Absent, Some(Blob("image/png", Some(BytesB))))>>)))))

CandidateLists ==
    {<<>>} \cup {<<c>> : c \in CandidateChoices} \cup {<<c, ImageCandidate>> : c \in CandidateChoices}

EditResponses ==
    {[candidates |-> Absent]} \cup {[candidates |-> Some(l)] : l \in CandidateLists}

(***************************************************************************)
(* chat.sendMessage: the response's text getter, possibly undefined.       *)
(***************************************************************************)
ChatResponses ==
    {[text |-> t] : t \in {Absent, Some(<<>>), Some(<<"Hello!">>), Some(<<"I", "can", "help.">>)}}

(***************************************************************************)
(* A generic operation handed to withExponentialBackoff resolves with its  *)
(* own value.                                                              *)
(***************************************************************************)
OperationResponses == {[value |-> v] : v \in {Absent, Some(<<"ok">>)}}

\* The remote call of an attempt settles: resolved with a response or rejected.
Resolved(r) == [ok |-> TRUE, response |-> Some(r), error |-> NoError]
Rejected(e) == [ok |-> FALSE, response |-> Absent, error |-> e]

Responses(kind) ==
    CASE kind = "generate" -> GenerateResponses
      [] kind = "edit" -> EditResponses
      [] kind = "chat" -> ChatResponses
      [] OTHER -> OperationResponses

RemoteOutcomes(kind) ==
    {Resolved(r) : r \in Responses(kind)} \cup {Rejected(e) : e \in RemoteErrors}
    \cup (IF kind = "operation" THEN {Rejected(UndefinedReadError)} ELSE {})

(***************************************************************************)
(* Arguments of the exported functions and the requests they build.        *)
(***************************************************************************)
AspectRatios == {"1:1", "16:9"}
MimeTypes == {"image/png", "image/jpeg"}
Turn(r, t) == [role |-> r, text |-> t]
Histories ==
    { <<>>,
      <<Turn("user", <<"hi">>), Turn("model", <<"hello">>)>>,
      <<Turn("user", <<"hi">>), Turn("model", <<"hello">>),
        Turn("user", <<"thanks">>), Turn("model", <<"welcome">>)>> }
NewMessages == {<<"how", "are", "you?">>}

NoArgs == [none |-> TRUE]
GenerateArgs == {[prompt |-> p, aspectRatio |-> a] : p \in {<<"a", "cat">>}, a \in AspectRatios}
EditArgs == {[prompt |-> p, base64ImageData |-> BytesA, mimeType |-> m] :
                p \in {<<"make", "it", "sunset">>}, m \in MimeTypes}
ChatArgs == {[history |-> h, newMessage |-> m] : h \in Histories, m \in NewMessages}

GenerateImagesRequest(args) ==
    [ model |-> "imagen-4.0-generate-001",
      prompt |-> args.prompt \o QualitySuffix,
      numberOfImages |-> 1,
      aspectRatio |-> args.aspectRatio,
      outputMimeType |-> "image/png" ]

GenerateContentRequest(args) ==
    [ model |-> "gemini-2.5-flash-image",
      parts |-> << Part(Some(EditPrefix \o args.prompt \o EditSuffix), Absent),
                   Part(Absent, Some(Blob(args.mimeType, Some(args.base64ImageData)))) >> ]

\* Mutant: the new message is also put at the end of the seeded history.
ChatRequestMessageInHistory(args) ==
    [ model |-> "gemini-2.5-flash",
      systemInstruction |-> Persona,
      history |-> [k \in 1..(Len(args.history) + 1) |->
                     IF k <= Len(args.history)
                     THEN [ role |-> IF args.history[k].role = "user" THEN "user" ELSE "model",
                            parts |-> <<args.history[k].text>> ]
                     ELSE [role |-> "user", parts |-> <<args.newMessage>>]],
      message |-> args.newMessage ]

ChatRequest(args) ==
    [ model |-> "gemini-2.5-flash",
      systemInstruction |-> Persona,
      history |-> [k \in 1..Len(args.history) |->
                     [ role |-> IF args.history[k].role = "user" THEN "user" ELSE "model",
                       parts |-> <<args.history[k].text>> ]],
      message |-> args.newMessage ]

BuildRequest(kind, args) ==
    CASE kind = "generate" -> Some(GenerateImagesRequest(args))
      [] kind = "edit" -> Some(GenerateContentRequest(args))
      [] kind = "chat" -> Some(ChatRequest(args))
      [] OTHER -> Absent

(***************************************************************************)
(* What each wrapped function makes of a resolved response.                *)
(***************************************************************************)
\* generateImageGemini, lines 62-65.
GenerateImagesResult(response) ==
    LET images == response.generatedImages IN
    IF ~Has(images) THEN Return(Absent)
    ELSE LET list == Get(images) IN
         IF Len(list) = 0 THEN Return(Absent)
         ELSE IF ~Has(list[1]) THEN Return(Absent)
         ELSE LET img == Get(list[1]).image IN
              IF ~Has(img) THEN Throw(UndefinedReadError)
              ELSE LET bytes == Get(img).imageBytes IN
                   IF Has(bytes) /\ Len(Get(bytes)) > 0
                   THEN Return(Some(PngUriPrefix \o Get(bytes)))
                   ELSE Return(Absent)

\* response.candidates?.[0]?.content?.parts || [], line 107.
ResponseParts(response) ==
    IF ~Has(response.candidates) THEN <<>>
    ELSE LET list == Get(response.candidates) IN
         IF Len(list) = 0 THEN <<>>
         ELSE IF ~Has(list[1]) THEN <<>>
         ELSE IF ~Has(Get(list[1]).content) THEN <<>>
         ELSE IF ~Has(Get(Get(list[1]).content).parts) THEN <<>>
         ELSE Get(Get(Get(list[1]).content).parts)

\* The data URI built from a part that has inlineData, line 109.
InlineDataUri(part) == PngUriPrefix \o TemplateText(Get(part.inlineData).data)

\* Mutant: the scan keeps going and the last inline part wins.
RECURSIVE ScanPartsLast(_, _)
ScanPartsLast(parts, k) ==
    IF k > Len(parts) THEN Return(Absent)
    ELSE LET rest == ScanPartsLast(parts, k + 1)
         IN  IF rest.tag = "return" /\ Has(rest.val) THEN rest
             ELSE IF Has(parts[k].inlineData) THEN Return(Some(InlineDataUri(parts[k])))
             ELSE rest

\* The for loop over the parts, lines 107-112.
RECURSIVE ScanParts(_, _)
ScanParts(parts, k) ==
    IF k > Len(parts) THEN Return(Absent)
    ELSE IF Has(parts[k].inlineData) THEN Return(Some(InlineDataUri(parts[k])))
    ELSE ScanParts(parts, k + 1)

EditContentResult(response) == ScanParts(ResponseParts(response), 1)

\* sendChatMessageGemini, line 160.
ChatResult(response) == Return(response.text)

OperationResult(response) == Return(response.value)

\* fn(): the wrapped function's outcome for the way its remote call settled.
fn(kind, remote) ==
    IF ~remote.ok THEN Throw(remote.error)
    ELSE CASE kind = "generate" -> GenerateImagesResult(Get(remote.response))
           [] kind = "edit" -> EditContentResult(Get(remote.response))
           [] kind = "chat" -> ChatResult(Get(remote.response))
           [] OTHER -> OperationResult(Get(remote.response))

\* The inner catch of the three exported functions logs with console.error.
LogsError(kind, outcome) == kind # "operation" /\ outcome.tag = "throw"

(***************************************************************************)
(* withExponentialBackoff.                                                 *)
(***************************************************************************)
\* Mutant: only the status codes are looked at.
isRetriableErrorStatusOnly(error) ==
    \/ error.status = Some(TooManyRequests)
    \/ error.status = Some(Forbidden)

\* Mutant: every error that carries a status is retried.
isRetriableErrorAnyStatus(error) ==
    \/ Has(error.status)
    \/ (Has(error.message) /\ Includes(Get(error.message), EntityNotFound))

\* error.status === 429 || error.message?.includes(...) || error.status === 403
isRetriableError(error) ==
    \/ error.status = Some(TooManyRequests)
    \/ (Has(error.message) /\ Includes(Get(error.message), EntityNotFound))
    \/ error.status = Some(Forbidden)

\* The for loop's test, i < attempts.
LoopContinues(i, attempts) == i < attempts

\* Mutant: the last attempt is not told apart, a retriable error is retried.
IsLastAttemptNever(i, attempts) == FALSE

\* Mutant: the last attempt is looked for one step late.
IsLastAttemptLate(i, attempts) == i = attempts

\* Mutant: the attempt before the last one is taken for the last.
IsLastAttemptEarly(i, attempts) == i >= attempts - 2

\* i === attempts - 1
IsLastAttempt(i, attempts) == i = attempts - 1

\* Mutant: the delay grows by a fixed step instead of doubling.
NextDelayLinear(delay) == delay + DefaultDelay

\* delay *= 2
NextDelay(delay) == delay * BackoffMultiplier

\* The retriable class as the contract words it, kept apart from the code's
\* test: status 429, status 403, or a message containing the not-found text.
Contains(s, needle) ==
    \E k \in 0..(Len(s) - Len(needle)) : SubSeq(s, k + 1, k + Len(needle)) = needle

RetriableClass(error) ==
    \/ (Has(error.status) /\ Get(error.status) \in {TooManyRequests, Forbidden})
    \/ (Has(error.message) /\ Contains(Get(error.message), EntityNotFound))

Classify(outcome) ==
    IF outcome.tag = "return" THEN "ok"
    ELSE IF RetriableClass(outcome.err) THEN "retriable" ELSE "fatal"

InitialDelays == {DefaultDelay, OtherDelay}

\* No call has been made.
Idle ==
    [ pc |-> "idle", kind |-> "none", args |-> NoArgs,
      attempts |-> 0, initialDelay |-> 0, i |-> 0, delay |-> 0,
      invocations |-> 0, request |-> Absent, response |-> Absent,
      firstOutcome |-> Pending, lastOutcome |-> Pending, history |-> <<>>,
      waited |-> <<>>, warnLog |-> <<>>, errorLog |-> 0,
      result |-> Pending, exit |-> "none" ]

\* The loop test before an attempt; the statement after the loop is line 30.
EnterLoop(c) ==
    IF LoopContinues(c.i, c.attempts)
    THEN [c EXCEPT !.pc = "invoke"]
    ELSE [c EXCEPT !.pc = "done", !.result = Throw(MaxRetryError), !.exit = "throw30"]

\* withExponentialBackoff(fn, attempts, delay) up to the first call of fn.
withExponentialBackoff(kind, args, attempts, delay) ==
    EnterLoop([Idle EXCEPT !.kind = kind, !.args = args, !.attempts = attempts,
                           !.initialDelay = delay, !.delay = delay, !.i = 0])

\* Mutant: fn() is awaited but its value is not returned; the loop goes on.
AwaitedWithoutReturn(c, outcome) == EnterLoop([c EXCEPT !.i = c.i + 1])

\* return await fn(): the resolved value leaves the loop at once.
ReturnAwaited(c, outcome) ==
    [c EXCEPT !.pc = "done", !.result = outcome, !.exit = "return15"]

\* Mutant: the retry log carries the loop index, not the attempt number.
CatchErrorLogsIndex(c, error) ==
    IF IsLastAttempt(c.i, c.attempts) \/ ~isRetriableError(error)
    THEN [c EXCEPT !.pc = "done", !.result = Throw(error), !.exit = "throw23"]
    ELSE [c EXCEPT !.pc = "sleeping",
                   !.warnLog = Append(c.warnLog, [attempt |-> c.i, delay |-> c.delay])]

\* The catch block: rethrow, or log the retry and start the timer.
CatchError(c, error) ==
    IF IsLastAttempt(c.i, c.attempts) \/ ~isRetriableError(error)
    THEN [c EXCEPT !.pc = "done", !.result = Throw(error), !.exit = "throw23"]
    ELSE [c EXCEPT !.pc = "sleeping",
                   !.warnLog = Append(c.warnLog, [attempt |-> c.i + 1, delay |-> c.delay])]

\* fn() is called: the request is built and sent.
InvokeFn(c) ==
    [c EXCEPT !.pc = "awaiting",
              !.invocations = c.invocations + 1,
              !.request = BuildRequest(c.kind, c.args)]

\* The awaited fn() settles: return its value, rethrow, or log and start the timer.
SettleFn(c, remote) ==
    LET outcome == fn(c.kind, remote)
        seen == [c EXCEPT !.response = remote.response,
                          !.lastOutcome = outcome,
                          !.firstOutcome = IF c.invocations = 1 THEN outcome ELSE c.firstOutcome,
                          !.history = Append(c.history, Classify(outcome)),
                          !.errorLog = IF LogsError(c.kind, outcome) THEN c.errorLog + 1
                                       ELSE c.errorLog]
    IN  IF outcome.tag = "return"
        THEN ReturnAwaited(seen, outcome)
        ELSE CatchError(seen, outcome.err)

\* Mutant: the loop index is not advanced.
FireTimerSameIndex(c) ==
    EnterLoop([c EXCEPT !.waited = Append(c.waited, c.delay),
                        !.delay = NextDelay(c.delay)])

\* The timer fires: delay is doubled, i++ and the loop test.
FireTimer(c) ==
    EnterLoop([c EXCEPT !.waited = Append(c.waited, c.delay),
                        !.delay = NextDelay(c.delay),
                        !.i = c.i + 1])

(***************************************************************************)
(* The credential: process.env.API_KEY, read when an attempt creates its   *)
(* client.                                                                 *)
(***************************************************************************)
KeyA == <<"key-A">>
KeyB == <<"key-B">>
EnvValues == {Absent, Some(KeyA), Some(KeyB)}

\* Mutant: a client that exists already is kept instead of a new one.
NewGoogleGenAICached(previous, environment) ==
    IF Has(previous) THEN previous
    ELSE Some([apiKey |-> IF Has(environment) /\ Len(Get(environment)) > 0
                          THEN Get(environment) ELSE <<>>])

\* new GoogleGenAI({ apiKey: process.env.API_KEY || '' }); previous is the
\* client of the attempt before, which plays no part.
NewGoogleGenAI(previous, environment) ==
    Some([apiKey |-> IF Has(environment) /\ Len(Get(environment)) > 0
                     THEN Get(environment) ELSE <<>>])

(***************************************************************************)
(* The state machine.                                                      *)
(***************************************************************************)
\* The component's state as useState creates it, App.tsx lines 26-43.
InitialState ==
    [ prompt |-> <<>>, generatedImage |-> Absent, isLoading |-> FALSE, error |-> Absent,
      aspectRatio |-> "1:1", uploadedImage |-> Absent, activeTab |-> "generate",
      chatHistory |-> <<>>, chatInput |-> <<>>, isChatLoading |-> FALSE ]

\* The calls that may be in flight together.
CallIds == {"a", "b"}

Init ==
    /\ call = Idle
    /\ env = Some(KeyA)
    /\ ai = Absent
    /\ keysUsed = <<>>
    /\ calls = [c \in CallIds |-> Idle]
    /\ received = [c \in CallIds |-> <<>>]
    /\ sent = {}
    /\ chat = Absent
    /\ ui = InitialState
    /\ overlap = [c \in CallIds |-> FALSE]

\* A direct use of the wrapper with its own attempts and delay.
CallOperation ==
    /\ call.pc = "idle"
    /\ \E a \in 0..MaxAttempts, d \in InitialDelays :
          call' = withExponentialBackoff("operation", NoArgs, a, d)
    /\ UNCHANGED <<keyVars, concVars, uiVars>>

generateImageGemini ==
    /\ call.pc = "idle"
    /\ \E args \in GenerateArgs :
          call' = withExponentialBackoff("generate", args, DefaultAttempts, DefaultDelay)
    /\ UNCHANGED <<keyVars, concVars, uiVars>>

editImageGemini ==
    /\ call.pc = "idle"
    /\ \E args \in EditArgs :
          call' = withExponentialBackoff("edit", args, DefaultAttempts, DefaultDelay)
    /\ UNCHANGED <<keyVars, concVars, uiVars>>

sendChatMessageGemini ==
    /\ call.pc = "idle"
    /\ \E args \in ChatArgs :
          call' = withExponentialBackoff("chat", args, DefaultAttempts, DefaultDelay)
    /\ UNCHANGED <<keyVars, concVars, uiVars>>

Invoke ==
    /\ call.pc = "invoke"
    /\ call' = InvokeFn(call)
    /\ ai' = IF call.kind = "operation" THEN ai ELSE NewGoogleGenAI(ai, env)
    /\ keysUsed' = IF call.kind = "operation" THEN keysUsed
                   ELSE Append(keysUsed, Get(ai').apiKey)
    /\ UNCHANGED <<env, concVars, uiVars>>

Settle ==
    /\ call.pc = "awaiting"
    /\ \E remote \in RemoteOutcomes(call.kind) : call' = SettleFn(call, remote)
    /\ UNCHANGED <<keyVars, concVars, uiVars>>

TimerFire ==
    /\ call.pc = "sleeping"
    /\ call' = FireTimer(call)
    /\ UNCHANGED <<keyVars, concVars, uiVars>>

Next ==
    \/ CallOperation
    \/ generateImageGemini
    \/ editImageGemini
    \/ sendChatMessageGemini
    \/ Invoke
    \/ Settle
    \/ TimerFire

Spec == Init /\ [][Next]_vars

\* Every remote call settles and every timer fires.
FairSpec == Spec /\ WF_vars(Invoke) /\ WF_vars(Settle) /\ WF_vars(TimerFire)

(***************************************************************************)
(* The credential over time: the environment may change at any moment, and *)
(* a finished call hands its outcome to the caller, who may call again.    *)
(***************************************************************************)
\* A few ways for the remote call to settle: with a payload, without one,
\* rejected for quota (retriable) or rejected with another status (fatal).
QuotaError == ErrorObject("ApiError", Some(TooManyRequests), Absent)
OtherError == ErrorObject("ApiError", Some(OtherStatus), Some(<<"Not", "found">>))

FewResponses(kind) ==
    CASE kind = "generate" ->
            { [generatedImages |-> Absent],
              [generatedImages |-> Some(<<Some(GeneratedImage(Some(Image(Some(BytesA)))))>>)] }
      [] kind = "edit" -> {[candidates |-> Absent], [candidates |-> Some(<<ImageCandidate>>)]}
      [] kind = "chat" -> {[text |-> Absent], [text |-> Some(<<"Hello!">>)]}
      [] OTHER -> OperationResponses

FewOutcomes(kind) ==
    {Resolved(r) : r \in FewResponses(kind)} \cup {Rejected(QuotaError), Rejected(OtherError)}

SettleFew ==
    /\ call.pc = "awaiting"
    /\ \E remote \in FewOutcomes(call.kind) : call' = SettleFn(call, remote)
    /\ UNCHANGED <<keyVars, concVars, uiVars>>

\* process.env.API_KEY is set, changed or unset from outside the module.
RotateKey ==
    /\ \E value \in EnvValues \ {env} : env' = value
    /\ UNCHANGED <<call, ai, keysUsed, concVars, uiVars>>

\* The awaited call settles in its caller; the next call starts afresh.
CallReturns ==
    /\ call.pc = "done"
    /\ call' = Idle
    /\ keysUsed' = <<>>
    /\ UNCHANGED <<env, ai, concVars, uiVars>>

KeyNext ==
    \/ generateImageGemini
    \/ editImageGemini
    \/ sendChatMessageGemini
    \/ Invoke
    \/ SettleFew
    \/ TimerFire
    \/ RotateKey
    \/ CallReturns

KeySpec == Init /\ [][KeyNext]_vars

(***************************************************************************)
(* Several calls in flight.  Each call of withExponentialBackoff has its   *)
(* own i and delay (locals of the call), and each attempt of               *)
(* sendChatMessageGemini creates its own chat session.                     *)
(***************************************************************************)
\* Mutant: one chat session is kept and goes on growing: a later attempt
\* sends its message into the session created last.
InvokeCallReusingChat(cs, c, session) ==
    IF cs[c].kind = "chat" /\ Has(session)
    THEN [cs EXCEPT ![c] =
             [InvokeFn(cs[c]) EXCEPT !.request =
                 Some([Get(session) EXCEPT
                          !.history = Append(@, [role |-> "user", parts |-> <<Get(session).message>>]),
                          !.message = cs[c].args.newMessage])]]
    ELSE [cs EXCEPT ![c] = InvokeFn(cs[c])]

\* fn() of call c; session is the chat session created last, which plays no
\* part.
InvokeCall(cs, c, session) == [cs EXCEPT ![c] = InvokeFn(cs[c])]

SettleCall(cs, c, remote) == [cs EXCEPT ![c] = SettleFn(cs[c], remote)]

\* Mutant: delay is one variable shared by every call in flight.
TimerCallSharedDelay(cs, c) ==
    [d \in DOMAIN cs |->
        IF d = c THEN FireTimer(cs[c])
        ELSE IF cs[d].pc \in {"invoke", "awaiting", "sleeping"}
             THEN [cs[d] EXCEPT !.delay = NextDelay(cs[d].delay)]
             ELSE cs[d]]

\* The timer of call c fires.
TimerCall(cs, c) == [cs EXCEPT ![c] = FireTimer(cs[c])]

\* The retry policies used side by side.
ConcPolicies ==
    { [attempts |-> DefaultAttempts - 1, delay |-> OtherDelay],
      [attempts |-> DefaultAttempts, delay |-> DefaultDelay] }

ConcChatArgs == {args \in ChatArgs : Len(args.history) <= 2}

CallOperationIn(c) ==
    /\ calls[c].pc = "idle"
    /\ \E p \in ConcPolicies :
          calls' = [calls EXCEPT ![c] =
                       withExponentialBackoff("operation", NoArgs, p.attempts, p.delay)]
    /\ UNCHANGED <<received, sent, chat, coreVars, uiVars>>

SendChatIn(c) ==
    /\ calls[c].pc = "idle"
    /\ \E args \in ConcChatArgs :
          calls' = [calls EXCEPT ![c] =
                       withExponentialBackoff("chat", args, DefaultAttempts, DefaultDelay)]
    /\ UNCHANGED <<received, sent, chat, coreVars, uiVars>>

InvokeIn(c) ==
    /\ calls[c].pc = "invoke"
    /\ calls' = InvokeCall(calls, c, chat)
    /\ chat' = IF calls[c].kind = "chat" THEN calls'[c].request ELSE chat
    /\ sent' = IF calls[c].kind = "chat"
               THEN sent \cup {[args |-> calls[c].args, request |-> Get(calls'[c].request)]}
               ELSE sent
    /\ UNCHANGED <<received, coreVars, uiVars>>

SettleIn(c) ==
    /\ calls[c].pc = "awaiting"
    /\ \E remote \in FewOutcomes(calls[c].kind) :
          /\ calls' = SettleCall(calls, c, remote)
          /\ received' = [received EXCEPT ![c] = Append(@, remote)]
    /\ UNCHANGED <<sent, chat, coreVars, uiVars>>

TimerIn(c) ==
    /\ calls[c].pc = "sleeping"
    /\ calls' = TimerCall(calls, c)
    /\ UNCHANGED <<received, sent, chat, coreVars, uiVars>>

\* The call settles in its caller.
ReturnIn(c) ==
    /\ calls[c].pc = "done"
    /\ calls' = [calls EXCEPT ![c] = Idle]
    /\ received' = [received EXCEPT ![c] = <<>>]
    /\ UNCHANGED <<sent, chat, coreVars, uiVars>>

ConcNext ==
    \E c \in CallIds :
        \/ CallOperationIn(c)
        \/ SendChatIn(c)
        \/ InvokeIn(c)
        \/ SettleIn(c)
        \/ TimerIn(c)
        \/ ReturnIn(c)

ConcSpec == Init /\ [][ConcNext]_vars

(***************************************************************************)
(* App.tsx, the image side: prompt, tabs, upload, the action button and    *)
(* the Enter key, and the handlers generateImage and editImage.            *)
(***************************************************************************)
NoImageMessage == <<"No image data received from API.">>
NoEditMessage ==
    <<"The model could not generate a visual edit.",
      "Try describing the desired output more clearly.">>
GenerateFallback ==
    <<"Failed to generate image.", "Please try a different prompt or check your API key.">>
EditFallback ==
    <<"Failed to edit image.", "Ensure the prompt is clear or check your API key.">>
MissingInputMessage == <<"Please provide both an image and a prompt for editing.">>

\* reader.result: the uploaded file as a data URL.
UploadedDataUrl == <<"data", ":", "image/jpeg", ";", "base64", ",">> \o BytesB
UiPrompts == {<<>>, <<"a", "cat">>}

\* s.split(sep): the pieces of s between the occurrences of sep.
RECURSIVE Split(_, _)
Split(s, sep) ==
    IF \A k \in 1..Len(s) : s[k] # sep THEN <<s>>
    ELSE LET at == CHOOSE k \in 1..Len(s) : s[k] = sep /\ \A j \in 1..(k - 1) : s[j] # sep
         IN  <<SubSeq(s, 1, at - 1)>> \o Split(SubSeq(s, at + 1, Len(s)), sep)

\* The calls of handlers that have not settled in their handler yet.
InFlight(cs) == {c \in DOMAIN cs : cs[c].pc # "idle"}

\* The activation a new handler call takes.
FreeCall(cs) == CHOOSE c \in DOMAIN cs : cs[c].pc = "idle"

\* A handler's call starts while those of InFlight(cs) are under way.
Overlaps(ov, cs, c) ==
    [d \in DOMAIN ov |->
        IF d = c THEN InFlight(cs) # {}
        ELSE IF d \in InFlight(cs) THEN TRUE ELSE ov[d]]

\* err.message || fallback
MessageOr(err, fallback) ==
    IF Has(err.message) /\ Len(Get(err.message)) > 0 THEN Get(err.message) ELSE fallback

\* Mutant: the awaited value is taken as it comes, absent or not.
AwaitedImageUrlUnchecked(result, emptyMessage) == result

\* The try block after the await: if (imageUrl) ... else throw new Error(...).
AwaitedImageUrl(result, emptyMessage) ==
    IF result.tag = "return" /\ ~(Has(result.val) /\ Len(Get(result.val)) > 0)
    THEN Throw(ErrorObject("Error", Absent, Some(emptyMessage)))
    ELSE result

\* Mutant: the flag is cleared on the success path only, there is no finally.
ImageHandlerResumesNoFinally(u, kind, result) ==
    LET outcome == AwaitedImageUrl(result, IF kind = "generate" THEN NoImageMessage
                                                                ELSE NoEditMessage)
        fallback == IF kind = "generate" THEN GenerateFallback ELSE EditFallback
    IN  IF outcome.tag = "return"
        THEN [u EXCEPT !.generatedImage = outcome.val, !.isLoading = FALSE]
        ELSE [u EXCEPT !.error = Some(MessageOr(outcome.err, fallback))]

\* generateImage / editImage from the await on: try, catch and finally.
ImageHandlerResumes(u, kind, result) ==
    LET outcome == AwaitedImageUrl(result, IF kind = "generate" THEN NoImageMessage
                                                                ELSE NoEditMessage)
        fallback == IF kind = "generate" THEN GenerateFallback ELSE EditFallback
    IN  IF outcome.tag = "return"
        THEN [u EXCEPT !.generatedImage = outcome.val, !.isLoading = FALSE]
        ELSE [u EXCEPT !.error = Some(MessageOr(outcome.err, fallback)), !.isLoading = FALSE]

\* generateImage up to its await.
generateImage(c) ==
    IF ui.prompt = <<>> THEN UNCHANGED <<ui, calls, overlap>>
    ELSE /\ ui' = [ui EXCEPT !.isLoading = TRUE, !.error = Absent, !.generatedImage = Absent]
         /\ calls' = [calls EXCEPT ![c] =
                 withExponentialBackoff("generate",
                     [prompt |-> ui.prompt, aspectRatio |-> ui.aspectRatio],
                     DefaultAttempts, DefaultDelay)]
         /\ overlap' = Overlaps(overlap, calls, c)

\* editImage up to its await.
editImage(c) ==
    IF ui.prompt = <<>> \/ ~Has(ui.uploadedImage)
    THEN /\ ui' = [ui EXCEPT !.error = Some(MissingInputMessage)]
         /\ UNCHANGED <<calls, overlap>>
    ELSE LET url == Get(ui.uploadedImage)
             base64Data == Split(url, ",")[2]
             mimeType == Split(Split(url, ";")[1], ":")[2]
         IN  /\ ui' = [ui EXCEPT !.isLoading = TRUE, !.error = Absent, !.generatedImage = Absent]
             /\ calls' = [calls EXCEPT ![c] =
                     withExponentialBackoff("edit",
                         [prompt |-> ui.prompt, base64ImageData |-> base64Data,
                          mimeType |-> mimeType[1]],
                         DefaultAttempts, DefaultDelay)]
             /\ overlap' = Overlaps(overlap, calls, c)

handleAction(c) ==
    IF ui.activeTab = "edit" /\ Has(ui.uploadedImage) THEN editImage(c) ELSE generateImage(c)

\* The action button's disabled attribute.
ActionDisabled(u) ==
    u.isLoading \/ u.prompt = <<>> \/ (u.activeTab = "edit" /\ ~Has(u.uploadedImage))

TypePrompt ==
    /\ \E p \in UiPrompts \ {ui.prompt} : ui' = [ui EXCEPT !.prompt = p]
    /\ UNCHANGED <<calls, overlap, received, sent, chat, coreVars>>

ClickGenerateTab ==
    /\ ui' = [ui EXCEPT !.activeTab = "generate", !.prompt = <<>>, !.error = Absent]
    /\ UNCHANGED <<calls, overlap, received, sent, chat, coreVars>>

ClickEditTab ==
    /\ ui' = [ui EXCEPT !.activeTab = "edit", !.prompt = <<>>, !.error = Absent]
    /\ UNCHANGED <<calls, overlap, received, sent, chat, coreVars>>

SelectAspectRatio ==
    /\ \E ratio \in AspectRatios \ {ui.aspectRatio} : ui' = [ui EXCEPT !.aspectRatio = ratio]
    /\ UNCHANGED <<calls, overlap, received, sent, chat, coreVars>>

\* handleImageUpload: the file has been read.
UploadImage ==
    /\ ~Has(ui.uploadedImage)
    /\ ui' = [ui EXCEPT !.uploadedImage = Some(UploadedDataUrl), !.activeTab = "edit",
                        !.error = Absent]
    /\ UNCHANGED <<calls, overlap, received, sent, chat, coreVars>>

clearUpload ==
    /\ Has(ui.uploadedImage)
    /\ ui' = [ui EXCEPT !.uploadedImage = Absent, !.activeTab = "generate",
                        !.prompt = <<>>, !.error = Absent]
    /\ UNCHANGED <<calls, overlap, received, sent, chat, coreVars>>

\* A click on the action button, which the browser delivers when enabled.
ClickAction ==
    /\ ~ActionDisabled(ui)
    /\ InFlight(calls) # CallIds
    /\ handleAction(FreeCall(calls))
    /\ UNCHANGED <<received, sent, chat, coreVars>>

\* Enter in the prompt field.
PressEnter ==
    /\ InFlight(calls) # CallIds
    /\ handleAction(FreeCall(calls))
    /\ UNCHANGED <<received, sent, chat, coreVars>>

\* The service call of a handler goes on: fn() is called, settles, a timer
\* fires.
ServiceInvokes(c) ==
    /\ calls[c].pc = "invoke"
    /\ calls' = InvokeCall(calls, c, chat)
    /\ UNCHANGED <<ui, overlap, received, sent, chat, coreVars>>

ServiceSettles(c) ==
    /\ calls[c].pc = "awaiting"
    /\ \E remote \in FewOutcomes(calls[c].kind) : calls' = SettleCall(calls, c, remote)
    /\ UNCHANGED <<ui, overlap, received, sent, chat, coreVars>>

ServiceTimer(c) ==
    /\ calls[c].pc = "sleeping"
    /\ calls' = TimerCall(calls, c)
    /\ UNCHANGED <<ui, overlap, received, sent, chat, coreVars>>

\* The awaited service call settles in generateImage / editImage.
ImageCallSettles(c) ==
    /\ calls[c].pc = "done"
    /\ calls[c].kind \in {"generate", "edit"}
    /\ ui' = ImageHandlerResumes(ui, calls[c].kind, calls[c].result)
    /\ calls' = [calls EXCEPT ![c] = Idle]
    /\ overlap' = [overlap EXCEPT ![c] = FALSE]
    /\ UNCHANGED <<received, sent, chat, coreVars>>

ImageUiNext ==
    \/ TypePrompt
    \/ ClickGenerateTab
    \/ ClickEditTab
    \/ SelectAspectRatio
    \/ UploadImage
    \/ clearUpload
    \/ ClickAction
    \/ PressEnter
    \/ \E c \in CallIds :
          \/ ServiceInvokes(c)
          \/ ServiceSettles(c)
          \/ ServiceTimer(c)
          \/ ImageCallSettles(c)

ImageUiSpec == Init /\ [][ImageUiNext]_vars

(***************************************************************************)
(* App.tsx, the chat side: the chat input, the form and handleChatSubmit.  *)
(***************************************************************************)
NoReplyMessage == <<"Sorry, I couldn't generate a response.">>
ChatFallback ==
    <<"I apologize, but I encountered an error while processing your request.",
      "Please try again.">>

\* What the chat input may hold: nothing, blanks, a message, a padded message.
ChatInputs == {<<>>, <<" ", " ">>, <<"hi">>, <<" ", "hi", " ">>}

\* Mutant: the input is tested as typed, blanks and all.
trimNothing(s) == s

\* String.prototype.trim: blanks are dropped at both ends.
RECURSIVE trim(_)
trim(s) ==
    IF Len(s) = 0 THEN s
    ELSE IF s[1] = " " THEN trim(Tail(s))
    ELSE IF s[Len(s)] = " " THEN trim(SubSeq(s, 1, Len(s) - 1))
    ELSE s

\* Mutant: the new turn is put in front of the transcript.
AppendTurnInFront(prev, turn) == <<turn>> \o prev

\* prev => [...prev, turn]
AppendTurn(prev, turn) == Append(prev, turn)

\* Mutant: the history handed over already holds the new user turn.
HistoryArgumentWithNewTurn(u, userMessage) ==
    AppendTurn(u.chatHistory, Turn("user", userMessage))

\* The first argument of sendChatMessageGemini: chatHistory of the render
\* the handler was created in.
HistoryArgument(u, userMessage) == u.chatHistory

\* The try block after the await: if (modelResponseText) ... else throw.
AwaitedReplyText(result) ==
    IF result.tag = "return" /\ ~(Has(result.val) /\ Len(Get(result.val)) > 0)
    THEN Throw(ErrorObject("Error", Absent, Some(NoReplyMessage)))
    ELSE result

\* Mutant: a failed exchange adds no turn, only the flag is cleared.
ChatHandlerResumesSilentOnError(u, result) ==
    IF AwaitedReplyText(result).tag = "return"
    THEN [u EXCEPT !.chatHistory = AppendTurn(u.chatHistory,
                                              Turn("model", Get(result.val))),
                   !.isChatLoading = FALSE]
    ELSE [u EXCEPT !.isChatLoading = FALSE]

\* handleChatSubmit from the await on: try, catch and finally.
ChatHandlerResumes(u, result) ==
    LET outcome == AwaitedReplyText(result)
        text == IF outcome.tag = "return" THEN Get(outcome.val)
                ELSE MessageOr(outcome.err, ChatFallback)
    IN  [u EXCEPT !.chatHistory = AppendTurn(u.chatHistory, Turn("model", text)),
                  !.isChatLoading = FALSE]

\* handleChatSubmit up to its await.
handleChatSubmit(c) ==
    IF trim(ui.chatInput) = <<>> \/ ui.isChatLoading
    THEN UNCHANGED <<ui, calls>>
    ELSE LET userMessage == ui.chatInput
         IN  /\ ui' = [ui EXCEPT !.chatInput = <<>>,
                                 !.chatHistory = AppendTurn(ui.chatHistory,
                                                            Turn("user", userMessage)),
                                 !.isChatLoading = TRUE]
             /\ calls' = [calls EXCEPT ![c] =
                     withExponentialBackoff("chat",
                         [history |-> HistoryArgument(ui, userMessage),
                          newMessage |-> userMessage],
                         DefaultAttempts, DefaultDelay)]

\* The chat input, which is disabled while a reply is awaited.
TypeChatInput ==
    /\ ~ui.isChatLoading
    /\ \E text \in ChatInputs \ {ui.chatInput} : ui' = [ui EXCEPT !.chatInput = text]
    /\ UNCHANGED <<calls, overlap, received, sent, chat, coreVars>>

\* The form is submitted.
SubmitChat ==
    /\ Len(ui.chatHistory) < 2 * MaxExchanges
    /\ InFlight(calls) # CallIds
    /\ handleChatSubmit(FreeCall(calls))
    /\ UNCHANGED <<overlap, received, sent, chat, coreVars>>

\* The awaited service call settles in handleChatSubmit.
ChatCallSettles(c) ==
    /\ calls[c].pc = "done"
    /\ calls[c].kind = "chat"
    /\ ui' = ChatHandlerResumes(ui, calls[c].result)
    /\ calls' = [calls EXCEPT ![c] = Idle]
    /\ UNCHANGED <<overlap, received, sent, chat, coreVars>>

ChatUiNext ==
    \/ TypeChatInput
    \/ SubmitChat
    \/ \E c \in CallIds :
          \/ ServiceInvokes(c)
          \/ ServiceSettles(c)
          \/ ServiceTimer(c)
          \/ ChatCallSettles(c)

ChatUiSpec == Init /\ [][ChatUiNext]_vars

(***************************************************************************)
(* Both sides of App.tsx with their loading flags: the program's own steps *)
(* are taken, every remote call settles and every timer fires.             *)
(***************************************************************************)
\* The remote call returns a payload, returns none, or is rejected with a
\* retriable error (which, repeated, exhausts the attempts).
LoadingOutcomes(kind) == FewOutcomes(kind) \ {Rejected(OtherError)}

ServiceAnswers(c) ==
    /\ calls[c].pc = "awaiting"
    /\ \E remote \in LoadingOutcomes(calls[c].kind) : calls' = SettleCall(calls, c, remote)
    /\ UNCHANGED <<ui, overlap, received, sent, chat, coreVars>>

\* A prompt is typed into the empty prompt field.
TypeAPrompt ==
    /\ ui.prompt = <<>>
    /\ ui' = [ui EXCEPT !.prompt = <<"a", "cat">>]
    /\ UNCHANGED <<calls, overlap, received, sent, chat, coreVars>>

\* The first chat message is typed.
TypeFirstMessage ==
    /\ ~ui.isChatLoading
    /\ ui.chatHistory = <<>>
    /\ ui.chatInput = <<>>
    /\ ui' = [ui EXCEPT !.chatInput = <<"hi">>]
    /\ UNCHANGED <<calls, overlap, received, sent, chat, coreVars>>

LoadingNext ==
    \/ TypeAPrompt
    \/ UploadImage
    \/ PressEnter
    \/ TypeFirstMessage
    \/ SubmitChat
    \/ \E c \in CallIds :
          \/ ServiceInvokes(c)
          \/ ServiceAnswers(c)
          \/ ServiceTimer(c)
          \/ ImageCallSettles(c)
          \/ ChatCallSettles(c)

LoadingSpec ==
    /\ Init
    /\ [][LoadingNext]_vars
    /\ \A c \in CallIds :
          /\ WF_vars(ServiceInvokes(c))
          /\ WF_vars(ServiceAnswers(c))
          /\ WF_vars(ServiceTimer(c))
          /\ WF_vars(ImageCallSettles(c))
          /\ WF_vars(ChatCallSettles(c))

(***************************************************************************)
(* Properties.                                                             *)
(***************************************************************************)
\* Every invocation so far has settled, and each failed with a retriable error.
AllFailedRetriably ==
    /\ call.invocations >= 1
    /\ Len(call.history) = call.invocations
    /\ \A k \in 1..Len(call.history) : call.history[k] = "retriable"

\* C1: when the first invocation of the operation fails with a non-retriable
\* error (status neither 429 nor 403, message without the not-found text), the
\* operation is invoked exactly once, no delay is waited and no retry is
\* logged, and the caller receives that same error unchanged.
NonRetriableFailsOnce ==
    (call.firstOutcome.tag = "throw" /\ ~RetriableClass(call.firstOutcome.err)) =>
        /\ call.invocations = 1
        /\ call.waited = <<>>
        /\ call.warnLog = <<>>
        /\ call.pc = "done"
        /\ call.exit = "throw23"
        /\ call.result = Throw(call.firstOutcome.err)

\* A call with attempts to spare ended on a 404 whose message lacks the text.
NonRetriableFailsOnceWitness ==
    /\ call.pc = "done"
    /\ call.attempts >= 2
    /\ call.invocations = 1
    /\ call.firstOutcome.tag = "throw"
    /\ call.firstOutcome.err.status = Some(OtherStatus)
    /\ ~RetriableClass(call.firstOutcome.err)
    /\ call.result = Throw(call.firstOutcome.err)

\* C2 as stated: an operation that fails retriably on every invocation is
\* invoked exactly attempts times and the call then fails with the generic
\* "Maximum retry attempts reached." error instead of the operation's error.
ExhaustionThrowsGenericError ==
    (call.attempts >= 1 /\ call.pc = "done" /\ AllFailedRetriably) =>
        /\ call.invocations = call.attempts
        /\ call.result = Throw(MaxRetryError)

\* C2 as amended: an operation that fails retriably on every invocation is
\* invoked exactly attempts times (the call is not over before, and nothing is
\* invoked after), and the call then fails with the error of the last
\* invocation, rethrown unchanged; the generic error is not produced.
ExhaustionRethrowsLastError ==
    (call.attempts >= 1 /\ AllFailedRetriably) =>
        /\ call.invocations <= call.attempts
        /\ (call.pc = "done") <=> (call.invocations = call.attempts)
        /\ call.pc = "done" =>
              /\ call.exit = "throw23"
              /\ call.result = Throw(call.lastOutcome.err)
              /\ call.result # Throw(MaxRetryError)

\* A call of three or more attempts, all failed retriably, is over.
ExhaustionRethrowsLastErrorWitness ==
    /\ call.attempts >= 3
    /\ call.pc = "done"
    /\ AllFailedRetriably
    /\ call.invocations = call.attempts
    /\ call.result = Throw(call.lastOutcome.err)

\* C3: the delay waited before the k-th retry is initialDelay * 2^(k-1); the
\* timer that is running was set to the next value of that sequence; and a
\* call whose attempts all failed retriably has waited attempts-1 delays.
BackoffDelaysDouble ==
    /\ \A k \in 1..Len(call.waited) :
          call.waited[k] = call.initialDelay * BackoffMultiplier ^ (k - 1)
    /\ call.pc = "sleeping" =>
          call.delay = call.initialDelay * BackoffMultiplier ^ Len(call.waited)
    /\ (call.attempts >= 1 /\ call.pc = "done" /\ AllFailedRetriably) =>
          Len(call.waited) = call.attempts - 1

\* The default policy's first two delays, 1000 and 2000, have been waited.
BackoffDelaysDoubleWitness ==
    /\ call.pc = "done"
    /\ AllFailedRetriably
    /\ call.initialDelay = DefaultDelay
    /\ call.attempts = DefaultAttempts
    /\ call.waited = <<DefaultDelay, DefaultDelay * 2>>

\* C4: an operation that succeeds on attempt k after k-1 retriable failures
\* ends the call at once with exactly the value it returned; the operation
\* has been invoked exactly k times and is not invoked again.
SuccessEndsTheCall ==
    call.lastOutcome.tag = "return" =>
        /\ call.pc = "done"
        /\ call.exit = "return15"
        /\ call.result = call.lastOutcome
        /\ call.invocations = Len(call.history)
        /\ call.invocations = call.i + 1
        /\ call.invocations <= call.attempts
        /\ call.history[call.invocations] = "ok"
        /\ \A k \in 1..(call.invocations - 1) : call.history[k] = "retriable"
        /\ Len(call.waited) = call.invocations - 1

\* The third attempt succeeded with a value after two retriable failures.
SuccessEndsTheCallWitness ==
    /\ call.pc = "done"
    /\ call.history = <<"retriable", "retriable", "ok">>
    /\ call.invocations = 3
    /\ Has(call.result.val)
    /\ call.result = call.lastOutcome

\* C5: when the attempt that just failed is the attempts-th one, its own
\* error goes to the caller at once even if it is retriable: no timer is
\* started and no retry is logged after it, so the call has waited exactly
\* attempts-1 delays and logged attempts-1 retries.
LastFailureIsRethrown ==
    ( /\ call.attempts >= 1
      /\ call.invocations = call.attempts
      /\ Len(call.history) = call.invocations
      /\ call.lastOutcome.tag = "throw" ) =>
        /\ call.pc = "done"
        /\ call.exit = "throw23"
        /\ call.result = Throw(call.lastOutcome.err)
        /\ Len(call.waited) = call.attempts - 1
        /\ Len(call.warnLog) = call.attempts - 1

\* The last of several attempts failed with a 429 and the call is over.
LastFailureIsRethrownWitness ==
    /\ call.attempts >= 2
    /\ call.invocations = call.attempts
    /\ call.pc = "done"
    /\ call.lastOutcome.tag = "throw"
    /\ call.lastOutcome.err.status = Some(TooManyRequests)
    /\ call.result = Throw(call.lastOutcome.err)
    /\ Len(call.waited) = call.attempts - 1

\* C6: an error is retried if and only if its status is 429, its status is
\* 403, or its message contains the not-found text: a timer runs only after
\* such an error, and a call that rethrew with attempts to spare rethrew an
\* error of no such kind.
RetryIffRetriable ==
    /\ call.pc = "sleeping" =>
          (call.lastOutcome.tag = "throw" /\ RetriableClass(call.lastOutcome.err))
    /\ (call.exit = "throw23" /\ call.invocations < call.attempts) =>
          ~RetriableClass(call.lastOutcome.err)
    /\ (call.exit = "throw23" /\ RetriableClass(call.lastOutcome.err)) =>
          call.invocations = call.attempts

\* A retry is under way for an error with no status, on its message alone.
RetryIffRetriableWitness ==
    /\ call.pc = "sleeping"
    /\ ~Has(call.lastOutcome.err.status)
    /\ Has(call.lastOutcome.err.message)
    /\ Contains(Get(call.lastOutcome.err.message), EntityNotFound)

\* C7: with attempts >= 1 the generic "Maximum retry attempts reached."
\* error is never produced, whatever the operation does: the statement after
\* the loop is not reached.
GenericErrorUnreachable ==
    call.attempts >= 1 =>
        /\ call.exit # "throw30"
        /\ call.result # Throw(MaxRetryError)

\* Every attempt failed retriably and the call is over: the case in which the
\* loop could have run out.
GenericErrorUnreachableWitness ==
    /\ call.attempts >= 1
    /\ call.pc = "done"
    /\ AllFailedRetriably
    /\ call.invocations = call.attempts
    /\ call.exit = "throw23"

\* How a finished call ended.
EndedInSuccess == call.exit = "return15" /\ call.result.tag = "return"
EndedInFatalError ==
    call.exit = "throw23" /\ call.result.tag = "throw" /\ ~RetriableClass(call.result.err)
EndedInExhaustion ==
    /\ call.exit = "throw23"
    /\ call.result.tag = "throw"
    /\ RetriableClass(call.result.err)
    /\ call.invocations = call.attempts

\* C8: when every remote call settles and every timer fires, a call that was
\* made is eventually over; it is then over in exactly one of success, fatal
\* error or exhaustion, and the operation is never invoked more than attempts
\* times.
EveryCallSettles ==
    /\ [](call.invocations <= call.attempts)
    /\ []((call.pc = "done" /\ call.attempts >= 1) =>
            (EndedInSuccess \/ EndedInFatalError \/ EndedInExhaustion))
    /\ (call.pc # "idle") ~> (call.pc = "done")

\* A call of three or more attempts is over, in success, on its last attempt.
EveryCallSettlesWitness ==
    /\ call.pc = "done"
    /\ call.attempts >= 3
    /\ call.invocations = call.attempts
    /\ EndedInSuccess

\* The response of generateImages carries no image bytes.
NoImageBytes(response) ==
    \/ ~Has(response.generatedImages)
    \/ Len(Get(response.generatedImages)) = 0
    \/ ~Has(Get(response.generatedImages)[1])
    \/ ~Has(Get(Get(response.generatedImages)[1]).image)
    \/ ~Has(Get(Get(Get(response.generatedImages)[1]).image).imageBytes)
    \/ Get(Get(Get(Get(response.generatedImages)[1]).image).imageBytes) = <<>>

\* C9: whenever image generation resolves with a response that carries no
\* image bytes, generateImageGemini returns absent: no error is raised, and
\* the empty result is not retried.
EmptyGenerationIsAbsent ==
    ( /\ call.kind = "generate"
      /\ Has(call.response)
      /\ NoImageBytes(Get(call.response)) ) =>
        /\ call.pc = "done"
        /\ call.exit = "return15"
        /\ call.result = Return(Absent)
        /\ call.invocations = Len(call.history)

\* The same with a first entry that has its image member: this much holds.
EmptyGenerationWithImageMemberIsAbsent ==
    ( /\ call.kind = "generate"
      /\ Has(call.response)
      /\ NoImageBytes(Get(call.response))
      /\ ( /\ Has(Get(call.response).generatedImages)
           /\ Len(Get(Get(call.response).generatedImages)) > 0
           /\ Has(Get(Get(call.response).generatedImages)[1]) )
         => Has(Get(Get(Get(call.response).generatedImages)[1]).image) ) =>
        /\ call.pc = "done"
        /\ call.exit = "return15"
        /\ call.result = Return(Absent)
        /\ call.invocations = Len(call.history)

\* The content parts of the first candidate, none when any level is missing.
FirstCandidateParts(response) ==
    IF /\ Has(response.candidates)
       /\ Len(Get(response.candidates)) >= 1
       /\ Has(Get(response.candidates)[1])
       /\ Has(Get(Get(response.candidates)[1]).content)
       /\ Has(Get(Get(Get(response.candidates)[1]).content).parts)
    THEN Get(Get(Get(Get(response.candidates)[1]).content).parts)
    ELSE <<>>

InlinePositions(parts) == {k \in 1..Len(parts) : Has(parts[k].inlineData)}

Least(S) == CHOOSE k \in S : \A j \in S : k <= j

\* C10: editImageGemini returns the data of the first part of the first
\* candidate that has inline data, as an image/png data URI whatever MIME
\* type the part declares and whatever text parts precede it; with no such
\* part (or no candidates, content or parts) it returns absent, not an error.
EditReturnsFirstInlinePart ==
    (call.kind = "edit" /\ Has(call.response)) =>
        LET parts == FirstCandidateParts(Get(call.response))
            inline == InlinePositions(parts)
        IN  /\ call.pc = "done"
            /\ call.exit = "return15"
            /\ call.result =
                  IF inline = {} THEN Return(Absent)
                  ELSE Return(Some(<<"data:image/png;base64,">>
                          \o TemplateText(Get(parts[Least(inline)].inlineData).data)))

\* A text part came first and a JPEG part second: its data is returned as PNG.
EditReturnsFirstInlinePartWitness ==
    /\ call.kind = "edit"
    /\ call.pc = "done"
    /\ Has(call.response)
    /\ FirstCandidateParts(Get(call.response))
          = <<TextPart, Part(Absent, Some(Blob("image/jpeg", Some(BytesB))))>>
    /\ call.result = Return(Some(<<"data:image/png;base64,">> \o BytesB))

\* C11: every attempt of sendChatMessageGemini builds a context that holds
\* the persona instruction and exactly the turns of history, in order, each
\* with its own role and text; newMessage is sent once, as the message; and
\* the value returned is the text of the response as it came, absent when the
\* response has no text.
ChatContextIsHistoryThenMessage ==
    (call.kind = "chat" /\ Has(call.request)) =>
        LET context == Get(call.request)
            history == call.args.history
        IN  /\ context.systemInstruction = Persona
            /\ Len(context.history) = Len(history)
            /\ \A k \in 1..Len(history) :
                  /\ context.history[k].role = history[k].role
                  /\ context.history[k].parts = <<history[k].text>>
            /\ context.message = call.args.newMessage
            /\ Has(call.response) =>
                  /\ call.pc = "done"
                  /\ call.result = Return(Get(call.response).text)

\* A retried call with a history of four turns returned the reply "Hello!".
ChatContextIsHistoryThenMessageWitness ==
    /\ call.kind = "chat"
    /\ call.pc = "done"
    /\ call.invocations >= 2
    /\ Len(call.args.history) = 4
    /\ Len(Get(call.request).history) = 4
    /\ Get(call.request).history[3].parts = <<<<"thanks">>>>
    /\ call.result = Return(Some(<<"Hello!">>))

\* The chat response had no text and the call returned absent.
ChatReturnsAbsentWithoutText ==
    /\ call.kind = "chat"
    /\ call.pc = "done"
    /\ Has(call.response)
    /\ ~Has(Get(call.response).text)
    /\ call.result = Return(Absent)

\* C15: one retry log entry is written per retry and none otherwise: the
\* k-th entry records attempt k and the delay initialDelay * 2^(k-1) about to
\* be waited; there are as many entries as timers started; and once the
\* operation has been invoked n >= 1 times there are n-1 entries.
RetryLogMatchesRetries ==
    /\ \A k \in 1..Len(call.warnLog) :
          call.warnLog[k] =
              [attempt |-> k, delay |-> call.initialDelay * BackoffMultiplier ^ (k - 1)]
    /\ Len(call.warnLog) = Len(call.waited) + (IF call.pc = "sleeping" THEN 1 ELSE 0)
    /\ (call.pc \in {"awaiting", "done"} /\ call.invocations >= 1) =>
          Len(call.warnLog) = call.invocations - 1

\* The default policy failed three times: two entries, 1000 and 2000 ms.
RetryLogMatchesRetriesWitness ==
    /\ call.pc = "done"
    /\ call.invocations = 3
    /\ call.initialDelay = DefaultDelay
    /\ call.warnLog = << [attempt |-> 1, delay |-> DefaultDelay],
                         [attempt |-> 2, delay |-> 2 * DefaultDelay] >>

\* The key string a client is given: process.env.API_KEY || ''.
CurrentKey == IF Has(env) THEN Get(env) ELSE <<>>

\* C13: every attempt of a service function reads the credential from the
\* environment as it is at that moment: the client of the attempt carries the
\* current key, so a key rotated during a backoff delay is the one the next
\* retry uses, and a call made after a rotation never uses the old key.
EveryAttemptReadsCurrentKey ==
    [][ (call.pc = "invoke" /\ call'.pc = "awaiting" /\ call.kind # "operation") =>
            /\ ai' = Some([apiKey |-> CurrentKey])
            /\ keysUsed' = Append(keysUsed, CurrentKey)
            /\ Len(keysUsed') = call'.invocations ]_vars

\* The key was rotated while the call slept: attempt 1 used key A, attempt 2
\* key B.
EveryAttemptReadsCurrentKeyWitness ==
    /\ call.pc = "awaiting"
    /\ call.invocations = 2
    /\ keysUsed = <<KeyA, KeyB>>
    /\ env = Some(KeyB)

\* A call made after a rotation, when the last client was made with key A.
CallAfterRotationUsesNewKey ==
    /\ call.pc = "awaiting"
    /\ call.invocations = 1
    /\ call.kind = "chat"
    /\ keysUsed = <<KeyB>>

\* The call run alone: the wrapper started with the same inputs and answered
\* with the same outcomes, one per attempt.
RECURSIVE SoloRun(_, _, _)
SoloRun(c, outcomes, k) ==
    IF k > Len(outcomes) THEN c
    ELSE LET ready == IF c.pc = "sleeping" THEN FireTimer(c) ELSE c
         IN  SoloRun(SettleFn(InvokeFn(ready), outcomes[k]), outcomes, k + 1)

AloneRun(c) ==
    SoloRun(withExponentialBackoff(calls[c].kind, calls[c].args, calls[c].attempts,
                                   calls[c].initialDelay),
            received[c], 1)

\* Where a call may stand before its next answer: as it is, its timer fired,
\* or its next attempt made.
BeforeNextAnswer(c) ==
    {c} \cup (IF c.pc = "invoke" THEN {InvokeFn(c)} ELSE {})
        \cup (IF c.pc = "sleeping"
              THEN {FireTimer(c)} \cup (IF FireTimer(c).pc = "invoke"
                                        THEN {InvokeFn(FireTimer(c))} ELSE {})
              ELSE {})

\* C12: with two calls in flight, interleaved in any order, each call's
\* attempts made, delays waited, next delay and outcome are those of the
\* same call run alone with the same answers: no call changes another's
\* attempt count or delay sequence.
CallsDoNotInterfere ==
    \A c \in CallIds :
        calls[c].pc # "idle" =>
            /\ calls[c] \in BeforeNextAnswer(AloneRun(c))
            /\ calls[c].invocations = AloneRun(c).invocations
                                      + (IF calls[c].pc = "awaiting" THEN 1 ELSE 0)
            /\ \A k \in 1..Len(calls[c].waited) :
                  calls[c].waited[k] = calls[c].initialDelay * BackoffMultiplier ^ (k - 1)

\* Two calls with different policies, both retried while the other was in
\* flight.
CallsDoNotInterfereWitness ==
    /\ calls["a"].pc = "awaiting"
    /\ calls["a"].attempts = DefaultAttempts - 1
    /\ calls["a"].waited = <<OtherDelay>>
    /\ calls["b"].pc = "awaiting"
    /\ calls["b"].waited = <<DefaultDelay, 2 * DefaultDelay>>

\* C14: the chat function keeps no session between calls: the context sent
\* is a function of the call's own history and newMessage, so any two
\* attempts made with equal arguments, by any call at any time, sent equal
\* contexts.
ChatContextDependsOnArgumentsOnly ==
    /\ \A p, q \in sent : p.args = q.args => p.request = q.request
    /\ \A c \in CallIds :
          (calls[c].kind = "chat" /\ Has(calls[c].request)) =>
              [args |-> calls[c].args, request |-> Get(calls[c].request)] \in sent

\* Call b sends the same arguments as call a, which is on its second
\* attempt, after a chat with another history was sent.
ChatContextDependsOnArgumentsOnlyWitness ==
    /\ calls["a"].kind = "chat" /\ calls["a"].pc = "awaiting" /\ calls["a"].invocations = 2
    /\ calls["b"].kind = "chat" /\ calls["b"].pc = "awaiting" /\ calls["b"].invocations = 1
    /\ calls["a"].args = calls["b"].args
    /\ Len(calls["a"].args.history) = 2
    /\ Cardinality(sent) = 2

\* C16: when the service call of an image handler returns absent and no
\* other image call was in flight during it, the handler ends with
\* isLoading false, generatedImage null and error set to the message of its
\* kind: "No image data received from API." for generation, the 'could not
\* generate a visual edit' message for editing.
AbsentImageShowsDomainMessage ==
    [][ \A c \in CallIds :
          ( /\ calls[c].pc = "done"
            /\ calls'[c].pc = "idle"
            /\ calls[c].result = Return(Absent)
            /\ ~overlap[c] ) =>
              /\ ui'.isLoading = FALSE
              /\ ui'.generatedImage = Absent
              /\ ui'.error = Some(IF calls[c].kind = "generate" THEN NoImageMessage
                                                                 ELSE NoEditMessage) ]_vars

\* An edit that returned absent has settled: nothing in flight, the spinner
\* off, no image, the edit message shown.
AbsentImageShowsDomainMessageWitness ==
    /\ InFlight(calls) = {}
    /\ ui.isLoading = FALSE
    /\ ui.generatedImage = Absent
    /\ ui.error = Some(NoEditMessage)

\* The same for a generation.
AbsentGenerationShowsItsMessage ==
    /\ InFlight(calls) = {}
    /\ ui.isLoading = FALSE
    /\ ui.generatedImage = Absent
    /\ ui.error = Some(NoImageMessage)

\* C19: at most one image call started from the UI is in flight at any time,
\* and isLoading is true exactly while one is.
OneImageCallAtATime ==
    /\ Cardinality(InFlight(calls)) <= 1
    /\ ui.isLoading <=> InFlight(calls) # {}

\* What does hold: the button alone never starts a second call, since a call
\* in flight that has the spinner on keeps it disabled.
LoadingWhileAlone ==
    (Cardinality(InFlight(calls)) = 1 /\ \A c \in InFlight(calls) : ~overlap[c]) =>
        ui.isLoading

\* C20: while the active tab is 'edit' the action never starts a generation
\* call, and an edit call is started only with an uploaded image and a
\* non-empty prompt.
EditTabNeverGenerates ==
    [][ \A c \in CallIds :
          (calls[c].pc = "idle" /\ calls'[c].pc # "idle") =>
              /\ ui.activeTab = "edit" => calls'[c].kind = "edit"
              /\ calls'[c].kind = "edit" => (Has(ui.uploadedImage) /\ ui.prompt # <<>>) ]_vars

\* What does hold: an edit call is started only from the edit tab, with an
\* uploaded image and a prompt, and carries the upload's bytes and type.
EditCallNeedsImageAndPrompt ==
    [][ \A c \in CallIds :
          (calls[c].pc = "idle" /\ calls'[c].pc # "idle" /\ calls'[c].kind = "edit") =>
              /\ ui.activeTab = "edit"
              /\ Has(ui.uploadedImage)
              /\ ui.prompt # <<>>
              /\ calls'[c].args.base64ImageData = BytesB
              /\ calls'[c].args.mimeType = "image/jpeg" ]_vars

\* C17: at every call the UI makes to sendChatMessageGemini, and for as long
\* as it is in flight, the history argument is the transcript as it stood
\* before the new user turn: the user turn and the reply turn of each
\* exchange completed before, in order; the new message is passed apart, so
\* the context sent holds it once, after those turns.
HistoryArgumentIsEarlierExchanges ==
    \A c \in CallIds :
        calls[c].kind = "chat" =>
            LET history == calls[c].args.history
                message == calls[c].args.newMessage
            IN  /\ ui.chatHistory = history \o <<Turn("user", message)>>
                /\ Len(history) % 2 = 0
                /\ \A k \in 1..Len(history) :
                      history[k].role = (IF k % 2 = 1 THEN "user" ELSE "model")
                /\ Has(calls[c].request) =>
                      /\ Len(Get(calls[c].request).history) = Len(ui.chatHistory) - 1
                      /\ \A k \in 1..Len(history) :
                            Get(calls[c].request).history[k] =
                                [role |-> ui.chatHistory[k].role,
                                 parts |-> <<ui.chatHistory[k].text>>]
                      /\ Get(calls[c].request).message = message

\* The second message is on its way with the first exchange as history.
HistoryArgumentIsEarlierExchangesWitness ==
    \E c \in CallIds :
        /\ calls[c].kind = "chat"
        /\ calls[c].pc = "awaiting"
        /\ calls[c].args.history = <<Turn("user", <<"hi">>), Turn("model", <<"Hello!">>)>>
        /\ calls[c].args.newMessage = <<" ", "hi", " ">>
        /\ Len(ui.chatHistory) = 3

\* s is t or a beginning of t.
IsPrefix(s, t) == Len(s) <= Len(t) /\ SubSeq(t, 1, Len(s)) = s

\* C18: the chat transcript is append-only: every step of a submit, a reply
\* or an error leaves the turns already there as they are and in place, and
\* adds at most one turn at the end.
TranscriptIsAppendOnly ==
    [][ /\ IsPrefix(ui.chatHistory, ui'.chatHistory)
        /\ Len(ui'.chatHistory) <= Len(ui.chatHistory) + 1 ]_vars

\* Two exchanges, the first answered with an error text, the second with a
\* reply.
TranscriptIsAppendOnlyWitness ==
    /\ Len(ui.chatHistory) = 4
    /\ ui.chatHistory[2] = Turn("model", NoReplyMessage)
    /\ ui.chatHistory[4] = Turn("model", <<"Hello!">>)
    /\ ~ui.isChatLoading

\* C21: in every state in which no image call is in flight, a displayed
\* result and a displayed error exclude each other: generatedImage and error
\* are never both non-null.
ResultAndErrorExclusive ==
    InFlight(calls) = {} => ~(Has(ui.generatedImage) /\ Has(ui.error))

\* An image from an earlier generation is still shown when editImage
\* refuses an empty prompt: no call was made, none is in flight.
StaleImageWithMissingInputError ==
    /\ InFlight(calls) = {}
    /\ ui.isLoading = FALSE
    /\ Has(ui.generatedImage)
    /\ ui.error = Some(MissingInputMessage)

\* Two calls started with Enter overlapped: one left its image, the other
\* its error.
ImageAndErrorOfOverlappingCalls ==
    /\ InFlight(calls) = {}
    /\ Has(ui.generatedImage)
    /\ ui.error = Some(NoImageMessage)

\* The input is empty or holds blanks only.
Blank(s) == \A k \in 1..Len(s) : s[k] = " "

\* C22: a chat submit made while isChatLoading is true, or with an input
\* that is empty once trimmed, does nothing: no call is started and
\* chatHistory, chatInput and isChatLoading stay as they are; so at most one
\* chat call is in flight at any time.
BusyOrBlankSubmitIsNoOp ==
    [][ /\ (SubmitChat /\ (ui.isChatLoading \/ Blank(ui.chatInput))) =>
              UNCHANGED <<ui, calls>>
        /\ Cardinality(InFlight(calls')) <= 1 ]_vars

\* A reply to the second message is awaited: a submit now is refused.
BusyOrBlankSubmitIsNoOpWitness ==
    /\ ui.isChatLoading
    /\ Cardinality(InFlight(calls)) = 1
    /\ Len(ui.chatHistory) = 3
    /\ ENABLED SubmitChat

\* Blanks only in the input and nothing awaited: a submit is refused too.
BlankInputWitness ==
    /\ ~ui.isChatLoading
    /\ ui.chatInput = <<" ", " ">>
    /\ Len(ui.chatHistory) = 2
    /\ ENABLED SubmitChat

\* C23: the chat transcript alternates user, model, user, model, ... from a
\* user turn on; its length is odd exactly while a chat call is in flight
\* and even otherwise.
TranscriptAlternates ==
    /\ \A k \in 1..Len(ui.chatHistory) :
          ui.chatHistory[k].role = (IF k % 2 = 1 THEN "user" ELSE "model")
    /\ (Len(ui.chatHistory) % 2 = 1) <=> (InFlight(calls) # {})

\* The first exchange failed for good, the second is waiting to be retried.
TranscriptAlternatesWitness ==
    /\ Len(ui.chatHistory) = 3
    /\ ui.chatHistory[2] = Turn("model", <<"Not", "found">>)
    /\ \E c \in CallIds : calls[c].pc = "sleeping" /\ calls[c].kind = "chat"

\* The replies the remote service may return as response.text.
RemoteReplies == {Get(r.text) : r \in {x \in FewResponses("chat") : Has(x.text)}}

\* C24: every model turn of the history passed to sendChatMessageGemini is
\* a reply text that the service returned: text made up locally for a failed
\* or absent exchange is never sent as a prior assistant turn.
HistoryHoldsReturnedRepliesOnly ==
    \A c \in CallIds :
        calls[c].kind = "chat" =>
            \A k \in 1..Len(calls[c].args.history) :
                calls[c].args.history[k].role = "model" =>
                    calls[c].args.history[k].text \in RemoteReplies

\* What does hold: each model turn passed is a returned reply or one of the
\* texts the handler shows for a failed exchange.
HistoryHoldsRepliesOrErrorTexts ==
    \A c \in CallIds :
        calls[c].kind = "chat" =>
            \A k \in 1..Len(calls[c].args.history) :
                calls[c].args.history[k].role = "model" =>
                    calls[c].args.history[k].text \in
                        RemoteReplies \cup {NoReplyMessage, ChatFallback, <<"Not", "found">>}

\* The context sent for the second message holds the text shown for the
\* absent reply to the first.
ErrorTextSentAsModelTurn ==
    \E c \in CallIds :
        /\ calls[c].kind = "chat"
        /\ calls[c].pc = "awaiting"
        /\ Get(calls[c].request).history =
              << [role |-> "user", parts |-> <<<<"hi">>>>],
                 [role |-> "model", parts |-> <<NoReplyMessage>>] >>

\* C25: every UI call that sets a loading flag clears it in the end: once
\* isLoading (or isChatLoading) is true it becomes false again, whether the
\* service call returns a payload, returns absent or fails, given that every
\* remote call settles and every timer fires.
LoadingFlagsClear ==
    /\ ui.isLoading ~> ~ui.isLoading
    /\ ui.isChatLoading ~> ~ui.isChatLoading

\* Both flags are off again after calls that failed on every attempt: the
\* image side and the chat side show their fallback texts.
LoadingFlagsClearWitness ==
    /\ InFlight(calls) = {}
    /\ ~ui.isLoading
    /\ ~ui.isChatLoading
    /\ ui.error = Some(GenerateFallback)
    /\ Len(ui.chatHistory) = 2
    /\ ui.chatHistory[2] = Turn("model", ChatFallback)

====
